---- MODULE Spec2Model ----
(***************************************************************************)
(* Model of the particle-cloud simulation engine of src/src/cloud.rs:      *)
(* Atom (find_gravity, find_magnetism, step) and Cloud (new, step, sort,   *)
(* positions).                                                             *)
(*                                                                         *)
(* Numbers.  The program computes in f32.  The model computes in exact     *)
(* rational arithmetic extended with the IEEE-754 special values that the  *)
(* program can produce (infinities and NaN).  Floating-point rounding is   *)
(* not modelled.  A number is a record [k, n, d]:                          *)
(*    k = "fin" : the rational n/d, d > 0, in lowest terms                 *)
(*    k = "inf" : infinity of sign n (1 or -1), d = 1                      *)
(*    k = "nan" : NaN with sign bit n (1 clear, -1 set), d = 1             *)
(*    k = "ovf" : a rational whose numerator or denominator is beyond      *)
(*                MaxInt; the model does not follow such computations      *)
(***************************************************************************)
EXTENDS Integers, Sequences, FiniteSets

VARIABLES atoms, snapshot, op, last, steps, pair, ret, calls

vars == <<atoms, snapshot, op, last, steps, pair, ret, calls>>

(***************************************************************************)
(* Bounds of the model.                                                    *)
(***************************************************************************)
\* largest numerator / denominator a modelled number may have
MaxInt == 30000
\* largest atom count given to Cloud::new
MaxAtoms == 3
\* largest number of Cloud::step calls followed
MaxSteps == 2
\* largest number of Atom method calls followed on the atom pair
MaxCalls == 2

(***************************************************************************)
(* Numbers.                                                                *)
(***************************************************************************)
Abs(i) == IF i < 0 THEN -i ELSE i

Sgn(i) == IF i < 0 THEN -1 ELSE IF i > 0 THEN 1 ELSE 0

RECURSIVE GCD(_, _)
GCD(a, b) == IF b = 0 THEN a ELSE GCD(b, a % b)

NaN == [k |-> "nan", n |-> 1, d |-> 1]

Ovf == [k |-> "ovf", n |-> 0, d |-> 1]

Inf(s) == [k |-> "inf", n |-> s, d |-> 1]

\* the rational num/den (den > 0) in lowest terms, or Ovf beyond MaxInt
Norm(num, den) ==
    LET g == GCD(Abs(num), den)
        n == num \div g
        d == den \div g
    IN  IF Abs(n) > MaxInt \/ d > MaxInt THEN Ovf
        ELSE [k |-> "fin", n |-> n, d |-> d]

\* the number literal num/den
Rat(num, den) == Norm(num, den)

Zero == Rat(0, 1)

IsNaN(a) == a.k = "nan"

IsZero(a) == a.k = "fin" /\ a.n = 0

\* sign of a finite or infinite number (zero counts as positive zero)
SignOf(a) == IF a.n < 0 THEN -1 ELSE 1

\* f32 negation
Neg(a) ==
    IF a.k \in {"ovf", "nan"} THEN a
    ELSE [a EXCEPT !.n = -a.n]

\* f32 addition
Add(a, b) ==
    IF a.k = "ovf" \/ b.k = "ovf" THEN Ovf
    ELSE IF a.k = "nan" \/ b.k = "nan" THEN NaN
    ELSE IF a.k = "inf" /\ b.k = "inf"
         THEN IF a.n = b.n THEN a ELSE NaN
    ELSE IF a.k = "inf" THEN a
    ELSE IF b.k = "inf" THEN b
    ELSE LET g == GCD(a.d, b.d)
         IN  Norm(a.n * (b.d \div g) + b.n * (a.d \div g), (a.d \div g) * b.d)

\* f32 subtraction
Sub(a, b) == Add(a, Neg(b))

\* f32 multiplication
Mul(a, b) ==
    IF a.k = "ovf" \/ b.k = "ovf" THEN Ovf
    ELSE IF a.k = "nan" \/ b.k = "nan" THEN NaN
    ELSE IF a.k = "inf" \/ b.k = "inf"
         THEN IF IsZero(a) \/ IsZero(b) THEN NaN
              ELSE Inf(SignOf(a) * SignOf(b))
    ELSE LET g1 == GCD(Abs(a.n), b.d)
             g2 == GCD(Abs(b.n), a.d)
         IN  Norm((a.n \div g1) * (b.n \div g2), (a.d \div g2) * (b.d \div g1))

\* f32 division
Div(a, b) ==
    IF a.k = "ovf" \/ b.k = "ovf" THEN Ovf
    ELSE IF a.k = "nan" \/ b.k = "nan" THEN NaN
    ELSE IF a.k = "inf"
         THEN IF b.k = "inf" THEN NaN ELSE Inf(SignOf(a) * SignOf(b))
    ELSE IF b.k = "inf" THEN Zero
    ELSE IF b.n = 0
         THEN IF a.n = 0 THEN NaN ELSE Inf(SignOf(a))
    ELSE Mul(a, [k |-> "fin", n |-> Sgn(b.n) * b.d, d |-> Abs(b.n)])

\* position of a number in the order of f32::total_cmp:
\* -NaN < -inf < finite < +inf < +NaN
Rank(a) ==
    IF a.k = "nan" THEN (IF a.n < 0 THEN 0 ELSE 4)
    ELSE IF a.k = "inf" THEN (IF a.n < 0 THEN 1 ELSE 3)
    ELSE 2

\* f32::total_cmp(a, b): "Less", "Equal" or "Greater"
total_cmp(a, b) ==
    IF Rank(a) < Rank(b) THEN "Less"
    ELSE IF Rank(a) > Rank(b) THEN "Greater"
    ELSE IF a.k # "fin" THEN "Equal"
    ELSE IF a.n * b.d < b.n * a.d THEN "Less"
    ELSE IF a.n * b.d > b.n * a.d THEN "Greater"
    ELSE "Equal"

(***************************************************************************)
(* cgmath Vector3 / Point3.                                                *)
(***************************************************************************)
Vec(x, y, z) == [x |-> x, y |-> y, z |-> z]

\* Vector3::zero()
VZero == Vec(Zero, Zero, Zero)

VAdd(u, v) == Vec(Add(u.x, v.x), Add(u.y, v.y), Add(u.z, v.z))

VSub(u, v) == Vec(Sub(u.x, v.x), Sub(u.y, v.y), Sub(u.z, v.z))

\* vector * scalar (and scalar * vector)
VScale(v, s) == Vec(Mul(v.x, s), Mul(v.y, s), Mul(v.z, s))

\* vector / scalar
VDiv(v, s) == Vec(Div(v.x, s), Div(v.y, s), Div(v.z, s))

\* InnerSpace::magnitude2: dot(v, v)
magnitude2(v) == Add(Add(Mul(v.x, v.x), Mul(v.y, v.y)), Mul(v.z, v.z))

Comps(v) == {v.x, v.y, v.z}

VHas(v, kind) == \E c \in Comps(v) : c.k = kind

(***************************************************************************)
(* Program constants.                                                      *)
(***************************************************************************)
\* Atom::G
G == Rat(5, 1)

\* Atom::mu (the source spells it with the Greek letter)
mu == Rat(55, 1)

\* std::f32::consts::PI, by the rational 355/113 (within one f32 ulp of it)
PI == Rat(355, 113)

\* the literal 4.0 of find_magnetism
Four == Rat(4, 1)

\* RECENTER of Cloud::step
RECENTER == Rat(1, 1)

\* the mass and charge Atom::new gives
One == Rat(1, 1)

(***************************************************************************)
(* Atom.                                                                   *)
(***************************************************************************)
\* Atom::new(position)
Atom_new(position) ==
    [position |-> position, velocity |-> VZero, mass |-> One, charge |-> One]

\* a plausible slip: explicit Euler, the position advanced by the old velocity
Atom_step_explicit(self, force, delta) ==
    [self EXCEPT
        !.velocity = VAdd(self.velocity, VDiv(VScale(force, delta), self.mass)),
        !.position = VAdd(self.position, VScale(self.velocity, delta))]

\* Atom::step(&mut self, force, delta): the atom afterwards
Atom_step(self, force, delta) ==
    LET velocity == VAdd(self.velocity, VDiv(VScale(force, delta), self.mass))
    IN  [self EXCEPT
            !.velocity = velocity,
            !.position = VAdd(self.position, VScale(velocity, delta))]

\* Atom::find_gravity(&self, other)
find_gravity(self, other) ==
    LET dir == VSub(other.position, self.position)
        factor == Div(Mul(Mul(G, self.mass), other.mass), magnitude2(dir))
    IN  VScale(dir, factor)

\* Atom::find_magnetism(&self, other)
find_magnetism(self, other) ==
    LET dir == VSub(self.position, other.position)
        factor == Div(Div(Div(Mul(Mul(mu, self.charge), other.charge), Four), PI),
                      magnitude2(dir))
    IN  VScale(dir, factor)

AtomHas(atom, kind) == VHas(atom.position, kind) \/ VHas(atom.velocity, kind)

(***************************************************************************)
(* Cloud.                                                                  *)
(***************************************************************************)
\* Cloud::new(count), the i-th sampled position being samples[i]
Cloud_new(count, samples) == [i \in 1..count |-> Atom_new(samples[i])]

\* the first loop of Cloud::step: center_of_mass -= position * mass, atom by atom
RECURSIVE CenterLoop(_, _, _)
CenterLoop(as, i, acc) ==
    IF i > Len(as) THEN acc
    ELSE CenterLoop(as, i + 1, VSub(acc, VScale(as[i].position, as[i].mass)))

center_of_mass(as) == CenterLoop(as, 1, VZero)

\* a plausible slip: the centre is recomputed from the atoms already moved
RECURSIVE RecenterMoving(_, _, _)
RecenterMoving(as, delta, i) ==
    IF i > Len(as) THEN as
    ELSE RecenterMoving(
            [as EXCEPT ![i].position =
                VAdd(as[i].position,
                     VScale(VScale(center_of_mass(as), delta), RECENTER))],
            delta, i + 1)

Recenter_recomputed(as, delta) == RecenterMoving(as, delta, 1)

\* phase 1 of Cloud::step: every position moved by center_of_mass * delta * RECENTER
Recenter(as, delta) ==
    LET c == center_of_mass(as)
    IN  [i \in 1..Len(as) |->
            [as[i] EXCEPT !.position =
                VAdd(as[i].position, VScale(VScale(c, delta), RECENTER))]]

\* a plausible slip: no test of a == o
SkipSelf_never(a, o) == FALSE

\* the test `if a == o { continue; }`
SkipSelf(a, o) == a = o

\* a plausible slip: the other atoms are read from the vector being updated
OtherAtoms_inplace(cur, atoms_tmp) == cur

\* the atoms the inner loop reads `other` from: the clone taken before phase 2
OtherAtoms(cur, atoms_tmp) == atoms_tmp

\* the inner loop of Cloud::step for atom number a: the force accumulated and
\* the number of (find_gravity, find_magnetism) evaluations made
RECURSIVE ForceLoop(_, _, _, _, _)
ForceLoop(atom, a, others, o, acc) ==
    IF o > Len(others) THEN acc
    ELSE IF SkipSelf(a, o) THEN ForceLoop(atom, a, others, o + 1, acc)
    ELSE ForceLoop(atom, a, others, o + 1,
            [force |-> VAdd(VAdd(acc.force, find_gravity(atom, others[o])),
                            find_magnetism(atom, others[o])),
             evals |-> acc.evals + 1])

\* a plausible slip: the inner loop starts at the second atom
NetForce_fromsecond(atom, a, others) ==
    ForceLoop(atom, a, others, 2, [force |-> VZero, evals |-> 0])

NetForce(atom, a, others) ==
    ForceLoop(atom, a, others, 1, [force |-> VZero, evals |-> 0])

\* the outer loop of Cloud::step, the atoms visited in the order `order`:
\* the atoms, the pairwise evaluations made and the Atom::step calls per atom
RECURSIVE ApplyLoop(_, _, _, _, _)
ApplyLoop(st, atoms_tmp, delta, order, k) ==
    IF k > Len(order) THEN st
    ELSE LET a == order[k]
             f == NetForce(st.atoms[a], a, OtherAtoms(st.atoms, atoms_tmp))
         IN  ApplyLoop(
                [atoms |-> [st.atoms EXCEPT ![a] = Atom_step(st.atoms[a], f.force, delta)],
                 evals |-> st.evals + f.evals,
                 stepped |-> [st.stepped EXCEPT ![a] = st.stepped[a] + 1]],
                atoms_tmp, delta, order, k + 1)

ApplyForces(as, atoms_tmp, delta, order) ==
    ApplyLoop([atoms |-> as, evals |-> 0, stepped |-> [i \in 1..Len(as) |-> 0]],
              atoms_tmp, delta, order, 1)

\* a plausible slip: the first atom is visited again after the last
VisitOrder_again(n) == [i \in 1..(IF n = 0 THEN 0 ELSE n + 1) |-> IF i <= n THEN i ELSE 1]

\* a plausible slip: the loop stops one atom short
VisitOrder_short(n) == [i \in 1..(n - 1) |-> i]

\* the order of self.atoms.iter_mut().enumerate()
VisitOrder(n) == [i \in 1..n |-> i]

\* x put into the z-sorted sequence s behind every element not greater than it
RECURSIVE InsertByZ(_, _, _)
InsertByZ(s, x, i) ==
    IF i > Len(s) THEN Append(s, x)
    ELSE IF total_cmp(x.position.z, s[i].position.z) = "Less"
         THEN SubSeq(s, 1, i - 1) \o <<x>> \o SubSeq(s, i, Len(s))
         ELSE InsertByZ(s, x, i + 1)

RECURSIVE SortLoop(_, _, _)
SortLoop(as, i, acc) ==
    IF i > Len(as) THEN acc ELSE SortLoop(as, i + 1, InsertByZ(acc, as[i], 1))

\* a plausible slip: the sort left out
sort_missing(as) == as

\* Cloud::sort: the stable sort by total_cmp of position.z
sort(as) == SortLoop(as, 1, <<>>)

\* a plausible slip: the last atom left out of the snapshot
positions_short(as) == [i \in 1..(Len(as) - 1) |-> as[i].position]

\* Cloud::positions
positions(as) == [i \in 1..Len(as) |-> as[i].position]

\* The sign bit of a NaN that an f32 operation produces is not determined by
\* the language: the targets differ in the NaN that 0.0 * inf gives, and an
\* operation on a NaN hands its sign on.  total_cmp reads the bit.  The
\* arithmetic above yields NaN with the bit clear; neg says whether the NaNs
\* of one Cloud::step come out with the bit set.
SignNum(a, neg) == IF a.k = "nan" /\ neg THEN [a EXCEPT !.n = -1] ELSE a

SignVec(v, neg) == Vec(SignNum(v.x, neg), SignNum(v.y, neg), SignNum(v.z, neg))

SignNaN(as, neg) ==
    [i \in 1..Len(as) |->
        [as[i] EXCEPT !.position = SignVec(as[i].position, neg),
                      !.velocity = SignVec(as[i].velocity, neg)]]

HasNaN(as) == \E i \in 1..Len(as) : AtomHas(as[i], "nan")

NaNSet(as) ==
    \E i \in 1..Len(as) :
        \E c \in Comps(as[i].position) \cup Comps(as[i].velocity) :
            c.k = "nan" /\ c.n < 0

\* the signs the NaNs of a step can have, the cloud being `pre` before it and
\* the force loop leaving `applied`: that of the NaNs already there, either
\* one for the first NaNs of a cloud
SignChoices(pre, applied) ==
    IF HasNaN(pre) THEN {NaNSet(pre)}
    ELSE IF HasNaN(applied) THEN BOOLEAN
    ELSE {FALSE}

\* phases 1 to 3 of Cloud::step(delta) on the atoms `as`: the atoms after
\* recentring and after the force loop, and what the force loop did
StepPhases(as, delta) ==
    LET recentred == Recenter(as, delta)
        atoms_tmp == recentred
        applied == ApplyForces(recentred, atoms_tmp, delta, VisitOrder(Len(as)))
    IN  [recentred |-> recentred,
         applied |-> applied.atoms,
         evals |-> applied.evals,
         stepped |-> applied.stepped]

\* phase 4 of Cloud::step: self.sort(), on the atoms the force loop left
StepSorted(applied, neg) == sort(SignNaN(applied, neg))

\* Cloud::step(delta) on the atoms `as`: self.atoms afterwards
Cloud_step(as, delta, neg) == StepSorted(StepPhases(as, delta).applied, neg)

NoOvf(as) == \A i \in 1..Len(as) : ~AtomHas(as[i], "ovf")

(***************************************************************************)
(* Inputs.                                                                 *)
(***************************************************************************)
Pt(x, y, z) == Vec(Rat(x, 1), Rat(y, 1), Rat(z, 1))

\* positions that rng.random_range(-1.0..=1.0) can give on each axis
Grid == {Pt(-1, 0, 0), Pt(0, 1, -1), Pt(1, -1, 1)}

\* frame times given to Cloud::step and Atom::step
Deltas == {Rat(0, 1), Rat(1, 2), Rat(1, 1)}

\* atoms on which the Atom methods are called directly
SelfSamples ==
    {[position |-> p, velocity |-> v, mass |-> m, charge |-> q] :
        p \in {Pt(0, 0, 0), Pt(1, -1, 1)},
        v \in {VZero, Pt(1, 0, -2)},
        m \in {Rat(1, 1), Rat(2, 1)},
        q \in {Rat(1, 1), Rat(-2, 1)}}

OtherSamples ==
    {[position |-> p, velocity |-> VZero, mass |-> m, charge |-> q] :
        p \in {Pt(0, 0, 0), Pt(2, 0, 0), Pt(1, 1, 0)},
        m \in {Rat(1, 1), Rat(3, 1)},
        q \in {Rat(1, 1), Rat(-1, 1)}}

Forces == {Pt(0, 0, 0), Pt(3, -1, 2)}

(***************************************************************************)
(* State.                                                                  *)
(*   atoms    : Cloud.atoms                                                *)
(*   snapshot : the vector the last positions() call returned              *)
(*   op       : the last Cloud operation: "new", "step" or "positions"     *)
(*   last     : record of the last Cloud::step call: its delta, the atoms  *)
(*              before it, after phase 1 and after phase 2, the number of  *)
(*              pairwise evaluations and of Atom::step calls per atom      *)
(*   steps    : number of Cloud::step calls made                           *)
(*   pair     : <<self, other>>, two atoms used outside a cloud            *)
(*   ret      : record of the last Atom method call on the pair            *)
(*   calls    : number of Atom::step calls made on the pair                *)
(***************************************************************************)
NoStep ==
    [delta |-> Zero, pre |-> <<>>, recentred |-> <<>>, applied |-> <<>>,
     neg |-> FALSE, evals |-> 0, stepped |-> <<>>]

NoRet ==
    [fn |-> "none", self |-> Atom_new(VZero), other |-> Atom_new(VZero),
     force |-> VZero, delta |-> Zero, value |-> VZero]

CloudIdle ==
    /\ atoms = <<>>
    /\ snapshot = <<>>
    /\ op = "new"
    /\ last = NoStep
    /\ steps = 0

PairIdle ==
    /\ pair = <<Atom_new(VZero), Atom_new(VZero)>>
    /\ ret = NoRet
    /\ calls = 0

\* after Cloud::new(count)
Init ==
    /\ \E count \in 0..MaxAtoms :
         \E samples \in [1..count -> Grid] : atoms = Cloud_new(count, samples)
    /\ snapshot = <<>>
    /\ op = "new"
    /\ last = NoStep
    /\ steps = 0
    /\ PairIdle

\* Cloud::step(delta)
Step(delta) ==
    /\ steps < MaxSteps
    /\ \E r \in {StepPhases(atoms, delta)} :
         /\ NoOvf(r.applied)
         /\ \E neg \in SignChoices(atoms, r.applied) :
              /\ atoms' = StepSorted(r.applied, neg)
              /\ last' = [delta |-> delta, pre |-> atoms, recentred |-> r.recentred,
                          applied |-> r.applied, neg |-> neg, evals |-> r.evals,
                          stepped |-> r.stepped]
    /\ op' = "step"
    /\ steps' = steps + 1
    /\ UNCHANGED <<snapshot, pair, ret, calls>>

\* Cloud::positions()
Positions ==
    /\ snapshot' = positions(atoms)
    /\ op' = "positions"
    /\ UNCHANGED <<atoms, last, steps, pair, ret, calls>>

Next ==
    \/ \E delta \in Deltas : Step(delta)
    \/ Positions

Spec == Init /\ [][Next]_vars

(***************************************************************************)
(* The symmetric two-atom cloud: atoms at (-1,0,0) and (1,0,0), at rest,   *)
(* of equal mass and equal charge, and the states it passes through in     *)
(* later frames: atoms at (-x,0,0) and (x,0,0) with velocities (-v,0,0)    *)
(* and (v,0,0).  (Two frames from the rest state leave numbers beyond      *)
(* MaxInt, so the later frames are entered directly.)                      *)
(***************************************************************************)
SymMasses == {Rat(1, 1), Rat(2, 1)}

SymCharges == {Rat(1, 1), Rat(-1, 1), Rat(2, 1)}

SymDeltas == {Rat(0, 1), Rat(1, 4), Rat(1, 2), Rat(1, 1), Rat(2, 1)}

\* x = 1, v = 0 is the configuration at rest
SymXs == {Rat(1, 1), Rat(1, 2), Rat(-1, 2)}

SymVs == {Rat(0, 1), Rat(1, 1), Rat(-1, 2)}

SymAtom(x, v, m, q) ==
    [position |-> Vec(x, Zero, Zero), velocity |-> Vec(v, Zero, Zero),
     mass |-> m, charge |-> q]

InitSym ==
    /\ \E m \in SymMasses : \E q \in SymCharges : \E x \in SymXs : \E v \in SymVs :
         atoms = <<SymAtom(Neg(x), Neg(v), m, q), SymAtom(x, v, m, q)>>
    /\ snapshot = <<>>
    /\ op = "new"
    /\ last = NoStep
    /\ steps = 0
    /\ PairIdle

NextSym ==
    \/ \E delta \in SymDeltas : Step(delta)
    \/ Positions

SpecSym == InitSym /\ [][NextSym]_vars

(***************************************************************************)
(* A cloud followed over two moving frames.  Cloud::new samples the atoms   *)
(* on the x and the z axis; from two atoms 11/7 apart a frame of           *)
(* delta = 11/7 and the frame after it stay within MaxInt.  The pair on    *)
(* the x axis is off centre (recentring moves it), the pair on the z axis  *)
(* changes its order in the first frame (the sort moves it).               *)
(***************************************************************************)
AxisGrid ==
    {Vec(Rat(-1, 1), Zero, Zero), Vec(Rat(4, 7), Zero, Zero),
     Vec(Zero, Zero, Rat(-11, 14)), Vec(Zero, Zero, Rat(11, 14))}

AxisDeltas == Deltas \cup {Rat(11, 7)}

\* after Cloud::new(count), the samples on the grid of Init or on the axes
InitAxis ==
    /\ \E count \in 0..MaxAtoms :
         \E samples \in [1..count -> Grid] \cup [1..count -> AxisGrid] :
             atoms = Cloud_new(count, samples)
    /\ snapshot = <<>>
    /\ op = "new"
    /\ last = NoStep
    /\ steps = 0
    /\ PairIdle

NextAxis ==
    \/ \E delta \in AxisDeltas : Step(delta)
    \/ Positions

SpecAxis == InitAxis /\ [][NextAxis]_vars

(***************************************************************************)
(* The Atom methods called directly on a pair of atoms.                    *)
(***************************************************************************)
InitAtom ==
    /\ CloudIdle
    /\ \E a \in SelfSamples : \E b \in OtherSamples : pair = <<a, b>>
    /\ ret = NoRet
    /\ calls = 0

\* the sign bits a returned force vector can carry: the sign of a NaN the
\* division and product generate is not specified, either bit can come out
ForceSigns(v) == IF VHas(v, "nan") THEN BOOLEAN ELSE {FALSE}

\* pair[1].find_gravity(&pair[2])
FindGravity ==
    /\ \E v \in {find_gravity(pair[1], pair[2])} :
           /\ ~VHas(v, "ovf")
           /\ \E neg \in ForceSigns(v) :
                ret' = [NoRet EXCEPT !.fn = "find_gravity", !.self = pair[1],
                                     !.other = pair[2], !.value = SignVec(v, neg)]
    /\ UNCHANGED <<pair, calls, atoms, snapshot, op, last, steps>>

\* pair[1].find_magnetism(&pair[2])
FindMagnetism ==
    /\ \E v \in {find_magnetism(pair[1], pair[2])} :
           /\ ~VHas(v, "ovf")
           /\ \E neg \in ForceSigns(v) :
                ret' = [NoRet EXCEPT !.fn = "find_magnetism", !.self = pair[1],
                                     !.other = pair[2], !.value = SignVec(v, neg)]
    /\ UNCHANGED <<pair, calls, atoms, snapshot, op, last, steps>>

\* pair[1].step(force, delta)
AtomStep(force, delta) ==
    /\ calls < MaxCalls
    /\ \E after \in {Atom_step(pair[1], force, delta)} :
           /\ ~AtomHas(after, "ovf")
           /\ pair' = <<after, pair[2]>>
    /\ ret' = [NoRet EXCEPT !.fn = "step", !.self = pair[1], !.other = pair[2],
                            !.force = force, !.delta = delta]
    /\ calls' = calls + 1
    /\ UNCHANGED <<atoms, snapshot, op, last, steps>>

NextAtom ==
    \/ FindGravity
    \/ FindMagnetism
    \/ \E force \in Forces : \E delta \in Deltas : AtomStep(force, delta)

SpecAtom == InitAtom /\ [][NextAtom]_vars

(***************************************************************************)
(* Vocabulary of the properties.                                           *)
(***************************************************************************)
\* every adjacent pair of the positions ps is in ascending order of z: the
\* former z is not greater than the latter in the order of total_cmp (for
\* two numbers this is z[i] <= z[i+1])
SortedByZ(ps) ==
    \A i \in 1..(Len(ps) - 1) : total_cmp(ps[i].z, ps[i + 1].z) # "Greater"

VNeg(v) == Vec(Neg(v.x), Neg(v.y), Neg(v.z))

VDot(u, v) == Add(Add(Mul(u.x, v.x), Mul(u.y, v.y)), Mul(u.z, v.z))

VCross(u, v) ==
    Vec(Sub(Mul(u.y, v.z), Mul(u.z, v.y)),
        Sub(Mul(u.z, v.x), Mul(u.x, v.z)),
        Sub(Mul(u.x, v.y), Mul(u.y, v.x)))

IsPos(a) == (a.k = "fin" /\ a.n > 0) \/ (a.k = "inf" /\ a.n > 0)

\* v is a positive multiple of u: the same direction
SameDirection(v, u) == VCross(v, u) = VZero /\ IsPos(VDot(v, u))

AbsNum(a) == IF a.k \in {"fin", "inf"} /\ a.n < 0 THEN Neg(a) ELSE a

Square(a) == Mul(a, a)

\* the sum over all atoms of (-position * mass), taken from the last atom on
RECURSIVE NegMassSum(_, _)
NegMassSum(as, i) ==
    IF i = 0 THEN VZero
    ELSE VAdd(VScale(VNeg(as[i].position), as[i].mass), NegMassSum(as, i - 1))

\* orders in which n atoms can be visited: every rotation of 1..n, forwards
\* and backwards (up to three atoms these are all the orders)
VisitOrders(n) ==
    {[i \in 1..n |-> ((i + r - 1) % n) + 1] : r \in 0..(n - 1)}
        \cup {[i \in 1..n |-> ((r + n - i) % n) + 1] : r \in 0..(n - 1)}

NoNaN(as) == ~HasNaN(as)

(***************************************************************************)
(* C1.  After any completed Cloud::step, the sequence positions() returns  *)
(* has non-decreasing z-components for every adjacent pair.                *)
(***************************************************************************)
C1_SortedAfterStep == steps >= 1 => SortedByZ(positions(atoms))

\* a step on three atoms whose force loop left them out of z order
C1_Witness ==
    /\ op = "step"
    /\ Len(atoms) = 3
    /\ ~SortedByZ(positions(SignNaN(last.applied, last.neg)))

(***************************************************************************)
(* C2.  Cloud::new sorts: positions() called after the constructor and     *)
(* before any step returns the positions sorted ascending by z.            *)
(***************************************************************************)
C2_SortedAfterNew == steps = 0 => SortedByZ(positions(atoms))

(***************************************************************************)
(* C3.  In one Cloud::step every atom's force is computed from the         *)
(* recentred, not yet integrated state of all atoms: the force loop gives  *)
(* what integrating every atom with its force from that state gives, in    *)
(* whatever order the atoms are visited.                                   *)
(***************************************************************************)
C3_SimultaneousUpdate ==
    op = "step" =>
        \A rec \in {last.recentred} :
            \A simultaneous \in
                {[a \in 1..Len(rec) |->
                    Atom_step(rec[a], NetForce(rec[a], a, rec).force, last.delta)]} :
                /\ last.applied = simultaneous
                /\ atoms = StepSorted(simultaneous, last.neg)
                /\ \A order \in VisitOrders(Len(rec)) :
                     ApplyForces(rec, rec, last.delta, order).atoms = simultaneous

\* a step with delta # 0 on three atoms, all of them accelerated
C3_Witness ==
    /\ op = "step"
    /\ Len(atoms) = 3
    /\ last.delta # Zero
    /\ NoNaN(atoms)
    /\ \A i \in 1..3 : atoms[i].velocity # VZero

(***************************************************************************)
(* C4.  positions() is a read-only, order-preserving snapshot: the cloud   *)
(* is unchanged, the result has one position per atom, its i-th element is *)
(* the i-th atom's position, and a second call with no step in between     *)
(* returns the same.                                                       *)
(***************************************************************************)
C4_PositionsSnapshot ==
    [][op' = "positions" =>
        /\ atoms' = atoms
        /\ Len(snapshot') = Len(atoms)
        /\ \A i \in 1..Len(atoms) : snapshot'[i] = atoms[i].position
        /\ (op = "positions" => snapshot' = snapshot)]_vars

\* positions() called after a step on at least two atoms
C4_Witness ==
    /\ op = "positions"
    /\ steps >= 1
    /\ Len(snapshot) >= 2
    /\ last.delta # Zero

(***************************************************************************)
(* C5.  Atom::step is semi-implicit Euler: v' = v + delta*force/mass, then *)
(* p' = p + delta*v' with the updated velocity (not the old one); mass and *)
(* charge are unchanged.                                                   *)
(***************************************************************************)
C5_SemiImplicitEuler ==
    ret.fn = "step" =>
        \A before \in {ret.self} : \A after \in {pair[1]} :
            /\ after.velocity =
                 VAdd(before.velocity,
                      VDiv(VScale(ret.force, ret.delta), before.mass))
            /\ after.position =
                 VAdd(before.position, VScale(after.velocity, ret.delta))
            /\ (after.velocity # before.velocity /\ ret.delta # Zero) =>
                 after.position #
                    VAdd(before.position, VScale(before.velocity, ret.delta))
            /\ after.mass = before.mass
            /\ after.charge = before.charge

\* a moving atom of mass 2 stepped with a force and delta # 0
C5_Witness ==
    /\ ret.fn = "step"
    /\ ret.force # VZero
    /\ ret.delta # Zero
    /\ ret.self.velocity # VZero
    /\ ret.self.mass = Rat(2, 1)
    /\ pair[1].velocity # ret.self.velocity

(***************************************************************************)
(* C6.  For two atoms at distinct positions find_gravity(self, other)      *)
(* points from self toward other, has magnitude                            *)
(* G * mass_self * mass_other / |direction|^2, and mutates neither atom.   *)
(* (Magnitudes are compared by their squares.)                             *)
(***************************************************************************)
C6_GravityInverseSquare ==
    (ret.fn = "find_gravity" /\ ret.self.position # ret.other.position) =>
        \A dir \in {VSub(ret.other.position, ret.self.position)} :
            /\ SameDirection(ret.value, dir)
            /\ magnitude2(ret.value) =
                 Square(Div(Mul(Mul(G, ret.self.mass), ret.other.mass),
                            magnitude2(dir)))
            /\ pair = <<ret.self, ret.other>>

(***************************************************************************)
(* C7.  For two atoms at distinct positions find_magnetism(self, other)    *)
(* lies along the line from other toward self, away from other when the    *)
(* charges share sign and toward other when they differ, has magnitude     *)
(* mu * |charge_self * charge_other| / (4 * pi * |direction|^2), and       *)
(* mutates neither atom.  (Magnitudes are compared by their squares.)      *)
(***************************************************************************)
C7_MagnetismInverseSquare ==
    (ret.fn = "find_magnetism" /\ ret.self.position # ret.other.position) =>
        \A dir \in {VSub(ret.self.position, ret.other.position)} :
            \A qq \in {Mul(ret.self.charge, ret.other.charge)} :
                /\ SameDirection(ret.value, IF IsPos(qq) THEN dir ELSE VNeg(dir))
                /\ magnitude2(ret.value) =
                     Square(Div(Div(Div(Mul(mu, AbsNum(qq)), Four), PI),
                                magnitude2(dir)))
                /\ pair = <<ret.self, ret.other>>

(***************************************************************************)
(* C8.  Recentring computes c = sum of (-position_i * mass_i) once, from   *)
(* the positions held before the step, adds the same c * delta * RECENTER  *)
(* to every position, and changes no velocity.                             *)
(***************************************************************************)
C8_RecentreOnce ==
    op = "step" =>
        \A pre \in {last.pre} :
            \A shift \in
                {VScale(VScale(NegMassSum(pre, Len(pre)), last.delta), RECENTER)} :
                /\ Len(last.recentred) = Len(pre)
                /\ \A i \in 1..Len(pre) :
                     /\ last.recentred[i].position = VAdd(pre[i].position, shift)
                     /\ last.recentred[i].velocity = pre[i].velocity
                     /\ last.recentred[i].mass = pre[i].mass
                     /\ last.recentred[i].charge = pre[i].charge

\* a step with delta # 0 on several atoms whose mass centre is off the origin
C8_Witness ==
    /\ op = "step"
    /\ Len(last.pre) >= 2
    /\ last.delta # Zero
    /\ NoNaN(last.pre)
    /\ center_of_mass(last.pre) # VZero
    /\ last.recentred[2].position # last.pre[2].position

(***************************************************************************)
(* C9.  On a cloud of one atom a step makes no pairwise force evaluation   *)
(* and applies only the recentring term: the velocity stays zero, the      *)
(* position becomes p + (-p * mass) * delta, and positions() has exactly   *)
(* one element.                                                            *)
(***************************************************************************)
C9_SingleAtom ==
    (op = "step" /\ Len(last.pre) = 1) =>
        \A before \in {last.pre[1]} :
            /\ last.evals = 0
            /\ Len(atoms) = 1
            /\ atoms[1].velocity = VZero
            /\ atoms[1].position =
                 VAdd(before.position,
                      VScale(VScale(VNeg(before.position), before.mass), last.delta))
            /\ Len(positions(atoms)) = 1

\* the second step of a one-atom cloud, with delta # 0, the atom off the origin
C9_Witness ==
    /\ op = "step"
    /\ Len(atoms) = 1
    /\ steps = 2
    /\ last.delta # Zero
    /\ last.pre[1].position # VZero
    /\ last.pre[1].position # atoms[1].position

Count(s, x) == Cardinality({i \in 1..Len(s) : s[i] = x})

C11_OncePerFrame ==
    op = "step" =>
        \A pre \in {last.pre} : \A done \in {SignNaN(last.applied, last.neg)} :
            /\ Len(last.stepped) = Len(pre)
            /\ \A i \in 1..Len(pre) : last.stepped[i] = 1
            /\ Len(last.applied) = Len(pre)
            /\ \A i \in 1..Len(pre) :
                 /\ last.applied[i].mass = pre[i].mass
                 /\ last.applied[i].charge = pre[i].charge
            /\ Len(atoms) = Len(pre)
            /\ \A i \in 1..Len(atoms) : Count(atoms, atoms[i]) = Count(done, atoms[i])

\* a step with delta # 0 on three atoms that the sort then reordered
C11_Witness ==
    /\ op = "step"
    /\ Len(atoms) = 3
    /\ last.delta # Zero
    /\ last.stepped = <<1, 1, 1>>
    /\ atoms # SignNaN(last.applied, last.neg)
    /\ NoNaN(atoms)

\* a step on the empty cloud
C11_WitnessEmpty == op = "step" /\ Len(last.pre) = 0 /\ atoms = <<>>

(***************************************************************************)
(* C12.  Pairwise forces are equal and opposite: find_gravity(a, b) =       *)
(* -find_gravity(b, a) and find_magnetism(a, b) = -find_magnetism(b, a) for *)
(* atoms at distinct positions.  So the net forces accumulated in one       *)
(* Cloud::step sum to zero, and the total momentum sum(mass_i * velocity_i) *)
(* of a cloud whose atoms start at rest is zero after any sequence of       *)
(* steps, in exact arithmetic.                                              *)
(***************************************************************************)
RECURSIVE VSum(_, _)
VSum(vs, i) == IF i > Len(vs) THEN VZero ELSE VAdd(vs[i], VSum(vs, i + 1))

\* sum(mass_i * velocity_i)
Momentum(as) == VSum([i \in 1..Len(as) |-> VScale(as[i].velocity, as[i].mass)], 1)

\* the sum over the atoms of the net force each one accumulates from `rec`
SumForces(rec) == VSum([a \in 1..Len(rec) |-> NetForce(rec[a], a, rec).force], 1)

\* two atoms of the cloud are at the same position
Coincide(as) ==
    \E i, j \in 1..Len(as) : i # j /\ as[i].position = as[j].position

PairwiseOpposite(rec) ==
    \A i, j \in 1..Len(rec) :
        (i # j /\ NoNaN(rec) /\ rec[i].position # rec[j].position) =>
            /\ find_gravity(rec[i], rec[j]) = VNeg(find_gravity(rec[j], rec[i]))
            /\ find_magnetism(rec[i], rec[j]) = VNeg(find_magnetism(rec[j], rec[i]))

\* the claim as stated: whatever the positions of the atoms
C12_MomentumZero ==
    /\ Momentum(atoms) = VZero
    /\ op = "step" =>
         /\ PairwiseOpposite(last.recentred)
         /\ SumForces(last.recentred) = VZero

\* the same as long as no two atoms have been at one position in a force
\* evaluation, in this step or in an earlier one (which leaves NaN in the
\* cloud): every step keeps the momentum it finds, which is zero
C12_MomentumZeroWhileDistinct ==
    /\ NoNaN(atoms) => Momentum(atoms) = VZero
    /\ op = "step" =>
         /\ PairwiseOpposite(last.recentred)
         /\ (NoNaN(last.pre) /\ ~Coincide(last.recentred)) =>
              /\ Momentum(last.pre) = VZero
              /\ SumForces(last.recentred) = VZero
              /\ Momentum(atoms) = Momentum(last.pre)
              /\ NoNaN(atoms)

\* a second moving frame: a step with delta # 0 on atoms at rest, then a step
\* with delta # 0 on the moving atoms, which changes their velocities
C12_Witness ==
    /\ op = "step"
    /\ steps = 2
    /\ Len(atoms) = 2
    /\ last.delta # Zero
    /\ NoNaN(atoms)
    /\ ~Coincide(last.recentred)
    /\ \A i \in 1..2 : last.pre[i].velocity # VZero
    /\ \A i \in 1..2 : last.applied[i].velocity # last.pre[i].velocity
    /\ \A i \in 1..2 : atoms[i].velocity # VZero
    /\ Momentum(atoms) = VZero

====
